---- MODULE Spec2Model ----
(***************************************************************************)
(* dtype_variant: a derive macro that gives an enum (a tagged union with   *)
(* heterogeneous payloads) one marker type per variant, owned / by-ref /   *)
(* by-mut accessors keyed by the marker, payload conversions, and plain    *)
(* and grouped dispatch macros.                                            *)
(*                                                                         *)
(* Identifiers are strings; a payload value is a number in Val; the unit   *)
(* value () is the empty tuple <<>>; an Option is a sequence of length 0   *)
(* (None) or 1 (Some).                                                     *)
(***************************************************************************)
EXTENDS Integers, Sequences, FiniteSets, TLC

\* Payload field values range over 0..MaxVal.
MaxVal == 1

Val == 0..MaxVal

None == <<>>

Some(x) == <<x>>

Range(seq) == {seq[i] : i \in DOMAIN seq}

(***************************************************************************)
(* Syntax trees of attribute arguments.                                    *)
(***************************************************************************)
\* A path expression: a single identifier, or a path get_ident() rejects.
PathIdent(n) == [k |-> "path", ident |-> Some(n)]

PathQualified == [k |-> "path", ident |-> None]

\* Any expression that is neither a path, a binary operation nor a call.
Lit == [k |-> "lit"]

Binary(op, l, r) == [k |-> "binary", op |-> op, left |-> l, right |-> r]

Call(func, args) == [k |-> "call", func |-> func, args |-> args]

Array(elems) == [k |-> "array", elems |-> elems]

MetaNameValue(path, value) == [k |-> "namevalue", path |-> path, value |-> value]

MetaPath(path) == [k |-> "metapath", path |-> path]

MetaList(path) == [k |-> "metalist", path |-> path]

(***************************************************************************)
(* Schema of a derived enum: the ordered variants with their shapes.       *)
(***************************************************************************)
UnitVariant(n) ==
  [name |-> n, shape |-> "Unit", fields |-> <<>>, ty |-> "()"]

TupleVariant(n, t) ==
  [name |-> n, shape |-> "Tuple", fields |-> <<"0">>, ty |-> t]

StructVariant(n, fs) ==
  [name |-> n, shape |-> "Struct", fields |-> fs, ty |-> n \o "Fields"]

\* The enums declared in the tests and examples of the repository.
MyEnumVariant ==
  [name |-> "MyEnumVariant", path |-> "tests", skip_from |-> FALSE, grouped |-> <<>>,
   variants |-> <<UnitVariant("U16"), UnitVariant("U32"), UnitVariant("U64")>>]

MyEnum ==
  [name |-> "MyEnum", path |-> "tests", skip_from |-> FALSE, grouped |-> <<>>,
   variants |-> <<TupleVariant("U16", "Vec<u16>"), TupleVariant("U32", "Vec<u32>"),
                  TupleVariant("U64", "Vec<u64>")>>]

DynChunk ==
  [name |-> "DynChunk", path |-> "tests", skip_from |-> FALSE, grouped |-> <<>>,
   variants |-> <<TupleVariant("I32", "i32"), TupleVariant("F32", "f32")>>]

MyData ==
  [name |-> "MyData", path |-> "tests", skip_from |-> FALSE,
   grouped |-> <<
     [name |-> "match_by_category",
      grouping |-> MetaNameValue("grouping", Array(<<
        Call(PathIdent("Numeric"), <<Binary("|", PathIdent("Int"), PathIdent("Float"))>>),
        Call(PathIdent("Text"), <<PathIdent("Str")>>)>>))],
     [name |-> "match_by_size",
      grouping |-> MetaNameValue("grouping", Array(<<
        Call(PathIdent("Small"), <<PathIdent("Int")>>),
        Call(PathIdent("Large"),
             <<Binary("|", PathIdent("Float"), PathIdent("Str"))>>)>>))]>>,
   variants |-> <<TupleVariant("Int", "i32"), TupleVariant("Float", "f64"),
                  TupleVariant("Str", "String")>>]

StructVariantData ==
  [name |-> "StructVariantData", path |-> "tests", skip_from |-> FALSE, grouped |-> <<>>,
   variants |-> <<StructVariant("Person", <<"name", "age">>),
                  StructVariant("Location", <<"lat", "lng">>),
                  TupleVariant("Score", "i32")>>]

PlayerInput ==
  [name |-> "PlayerInput", path |-> "dtype_variant_example_shared::variants",
   skip_from |-> FALSE, grouped |-> <<>>,
   variants |-> <<TupleVariant("Move", "String"), TupleVariant("Attack", "u32")>>]

AIBehavior ==
  [name |-> "AIBehavior", path |-> "dtype_variant_example_shared::variants",
   skip_from |-> FALSE, grouped |-> <<>>,
   variants |-> <<TupleVariant("Attack", "u32"), TupleVariant("Flee", "bool")>>]

GameEvent ==
  [name |-> "GameEvent", path |-> "", skip_from |-> FALSE,
   grouped |-> <<
     [name |-> "match_by_priority",
      grouping |-> MetaNameValue("grouping", Array(<<
        Call(PathIdent("Critical"),
             <<Binary("|", PathIdent("PlayerDeath"), PathIdent("ServerCrash"))>>),
        Call(PathIdent("Normal"),
             <<Binary("|", Binary("|", PathIdent("PlayerMove"),
                                  PathIdent("ChatMessage")),
                      PathIdent("ItemPickup"))>>),
        Call(PathIdent("Info"),
             <<Binary("|", PathIdent("PlayerConnect"),
                      PathIdent("PlayerDisconnect"))>>)>>))],
     [name |-> "match_by_category",
      grouping |-> MetaNameValue("grouping", Array(<<
        Call(PathIdent("Player"),
             <<Binary("|", Binary("|", Binary("|", PathIdent("PlayerMove"),
                                              PathIdent("PlayerConnect")),
                                  PathIdent("PlayerDisconnect")),
                      PathIdent("PlayerDeath"))>>),
        Call(PathIdent("System"),
             <<Binary("|", PathIdent("ServerCrash"), PathIdent("ItemPickup"))>>),
        Call(PathIdent("Communication"), <<PathIdent("ChatMessage")>>)>>))]>>,
   variants |-> <<StructVariant("PlayerMove", <<"player_id", "x", "y">>),
                  StructVariant("PlayerDeath", <<"player_id", "cause">>),
                  TupleVariant("ChatMessage", "String"),
                  TupleVariant("ItemPickup", "u32"),
                  UnitVariant("PlayerConnect"), UnitVariant("PlayerDisconnect"),
                  UnitVariant("ServerCrash")>>]

Schemas ==
  {MyEnumVariant, MyEnum, DynChunk, MyData, StructVariantData, PlayerInput,
   AIBehavior, GameEvent}

VariantsOf(s) == Range(s.variants)

VariantNamed(s, n) == CHOOSE v \in VariantsOf(s) : v.name = n

FieldSet(v) == Range(v.fields)

(***************************************************************************)
(* Marker types.                                                           *)
(***************************************************************************)
\* The marker name without the variant's name in it.
TokenIdent_NoName(variant) == "Variant"

\* format_ident!("{}Variant", variant)
TokenIdent(variant) == variant \o "Variant"

\* The module the marker types of an enum live in: the shared path when one
\* is declared, the enum's own scope otherwise.
TokenPath(s) == IF s.path = "" THEN "local::" \o s.name ELSE s.path

\* The marker path without the marker's name.
TokenTypePath_NoIdent(token_path, token_ident) == <<token_path, "">>

\* quote!(#token_path :: #token_ident)
TokenTypePath(token_path, token_ident) == <<token_path, token_ident>>

RECURSIVE Dedup(_)
\* A sequence without the later occurrences of its elements.
Dedup(seq) ==
  IF seq = <<>> THEN <<>>
  ELSE LET init == Dedup(SubSeq(seq, 1, Len(seq) - 1))
           last == seq[Len(seq)]
       IN  IF last \in Range(init) THEN init ELSE Append(init, last)

\* One declaration per distinct name of the list.
build_dtype_tokens_Dedup(variants) ==
  LET names == Dedup(variants)
  IN  [i \in DOMAIN names |-> TokenIdent(names[i])]

\* build_dtype_tokens!([..]): pub struct <variant>Variant; for each name.
build_dtype_tokens(variants) == [i \in DOMAIN variants |-> TokenIdent(variants[i])]

MarkerOf(s, variant) == TokenTypePath(TokenPath(s), TokenIdent(variant))

MarkersOf(s) == {MarkerOf(s, v.name) : v \in VariantsOf(s)}

(***************************************************************************)
(* Enum values and the generated conversions and accessors.  An enum value *)
(* is its active variant's name and the storage of that variant's fields   *)
(* (a tuple variant has the single field "0").                             *)
(***************************************************************************)
Storage(v) == [FieldSet(v) -> Val]

EnumValue(v, st) == [tag |-> v.name, fields |-> st]

ValuesOf(s) ==
  UNION {{EnumValue(v, st) : st \in Storage(v)} : v \in VariantsOf(s)}

\* The owned payload type's values: () for a unit variant, the bare payload
\* for a tuple variant, the record <Variant>Fields for a struct variant.
Payloads(v) ==
  CASE v.shape = "Unit" -> {<<>>}
    [] v.shape = "Tuple" -> Val
    [] v.shape = "Struct" -> [FieldSet(v) -> Val]

\* impl From<Payload> for Enum
From(v, p) ==
  CASE v.shape = "Tuple" -> EnumValue(v, [f \in {"0"} |-> p])
    [] v.shape = "Struct" -> EnumValue(v, [f \in FieldSet(v) |-> p[f]])

\* The skip_from_impls flag is not consulted.
HasFrom_IgnoreSkip(s, v) == v.shape # "Unit"

HasFrom(s, v) == ~s.skip_from /\ v.shape # "Unit"

OwnedPayload(v, st) ==
  CASE v.shape = "Unit" -> <<>>
    [] v.shape = "Tuple" -> st["0"]
    [] v.shape = "Struct" -> [f \in FieldSet(v) |-> st[f]]

\* A reference into an enum value's storage: the place it points at.
RefTo(place, f) == [place |-> place, field |-> f]

\* The record types of a struct variant: <Variant>Fields by value,
\* <Variant>Ref and <Variant>Mut by reference, fields in declared order.
OwnedRecord(v) == [name |-> v.name \o "Fields", fields |-> v.fields]

RefRecord(v) == [name |-> v.name \o "Ref", fields |-> v.fields]

MutRecord(v) == [name |-> v.name \o "Mut", fields |-> v.fields]

\* Every reference of a struct variant's record refers to the first field.
RefPayload_FirstField(v) ==
  CASE v.shape = "Unit" -> <<>>
    [] v.shape = "Tuple" -> RefTo("self", "0")
    [] v.shape = "Struct" -> [f \in FieldSet(v) |-> RefTo("self", v.fields[1])]

\* The by-reference payload: () for a unit variant, a reference to the
\* payload for a tuple variant, a record of one reference per field
\* (<Variant>Ref / <Variant>Mut) for a struct variant.
RefPayload(v) ==
  CASE v.shape = "Unit" -> <<>>
    [] v.shape = "Tuple" -> RefTo("self", "0")
    [] v.shape = "Struct" -> [f \in FieldSet(v) |-> RefTo("self", f)]

\* The struct record holds references into a copy of the fields.
MutPayload_Wrapper(v) ==
  CASE v.shape = "Unit" -> <<>>
    [] v.shape = "Tuple" -> RefTo("self", "0")
    [] v.shape = "Struct" -> [f \in FieldSet(v) |-> RefTo("wrapper", f)]

MutPayload(v) ==
  CASE v.shape = "Unit" -> <<>>
    [] v.shape = "Tuple" -> RefTo("self", "0")
    [] v.shape = "Struct" -> [f \in FieldSet(v) |-> RefTo("self", f)]

\* The impl selected by a marker type: the variant the marker was made for.
ImplFor(s, marker) == CHOOSE v \in VariantsOf(s) : MarkerOf(s, v.name) = marker

\* EnumVariantDowncast<Marker>::downcast(self)
downcast(s, e, marker) ==
  LET v == ImplFor(s, marker)
  IN  IF e.tag = v.name THEN Some(OwnedPayload(v, e.fields)) ELSE None

\* EnumVariantDowncastRef<Marker>::downcast_ref(&self)
downcast_ref(s, e, marker) ==
  LET v == ImplFor(s, marker)
  IN  IF e.tag = v.name THEN Some(RefPayload(v)) ELSE None

\* EnumVariantDowncastMut<Marker>::downcast_mut(&mut self)
downcast_mut(s, e, marker) ==
  LET v == ImplFor(s, marker)
  IN  IF e.tag = v.name THEN Some(MutPayload(v)) ELSE None

\* The references a by-ref / by-mut payload of variant v holds, by field.
RefsIn(v, payload) ==
  CASE v.shape = "Unit" -> <<>>
    [] v.shape = "Tuple" -> [f \in {"0"} |-> payload]
    [] v.shape = "Struct" -> payload

\* The write lands in a temporary copy of the payload.
WriteThrough_Copy(e, r, w) == e

\* *r = w
WriteThrough(e, r, w) ==
  IF r.place = "self" THEN [e EXCEPT !.fields[r.field] = w] ELSE e

\* *r
Deref(e, r) == e.fields[r.field]

(***************************************************************************)
(* The routine generic over one marker of examples/simple.                 *)
(***************************************************************************)
\* The where-clauses: both enums implement the by-reference accessor for
\* the marker, and both payloads dereference to one type that can be added.
WhereClauses(Variant) ==
  /\ Variant \in MarkersOf(PlayerInput) \cap MarkersOf(AIBehavior)
  /\ ImplFor(PlayerInput, Variant).ty = ImplFor(AIBehavior, Variant).ty
  /\ ImplFor(PlayerInput, Variant).ty = "u32"

\* A None of the second accessor is not propagated.
combine_shared_actions_IgnoreSecond(Variant, action1, action2) ==
  LET inner1 == downcast_ref(PlayerInput, action1, Variant)
  IN  IF inner1 = None THEN None ELSE Some(Deref(action1, inner1[1]))

\* fn combine_shared_actions<Variant, Target>(action1, action2) -> Option<Target>
combine_shared_actions(Variant, action1, action2) ==
  LET inner1 == downcast_ref(PlayerInput, action1, Variant)
      inner2 == downcast_ref(AIBehavior, action2, Variant)
  IN  IF inner1 = None THEN None
      ELSE IF inner2 = None THEN None
      ELSE Some(Deref(action1, inner1[1]) + Deref(action2, inner2[1]))

(***************************************************************************)
(* The matcher generator: the arms of the match the dispatch macros expand *)
(* to.  Macro metavariables ($inner, $body, ..) are strings.               *)
(***************************************************************************)
\* What the generator knows of a variant.
ParsedVariantInfo(v) ==
  [variant_ident |-> v.name,
   token_ident |-> TokenIdent(v.name),
   is_unit |-> v.shape = "Unit",
   inner_type |-> IF v.shape = "Unit" THEN None ELSE Some(v.ty)]

ParsedVariants(s) == [i \in DOMAIN s.variants |-> ParsedVariantInfo(s.variants[i])]

\* #[allow(unused)] type alias<generic> = target;
TypeAlias(alias, generic, target) ==
  [alias |-> alias, generic |-> generic, target |-> target]

TypeNamed(ty) == [k |-> "type", ty |-> ty]

MarkerType(path) == [k |-> "marker", path |-> path]

\* <enum<generic> as trait<marker>>::item
AssocType(enum, generic, trait, marker, item) ==
  [k |-> "assoc", enum |-> enum, generic |-> generic, trait |-> trait,
   marker |-> marker, item |-> item]

\* The source type is () whatever the variant holds.
generate_match_arm_content_UnitSrc(variant_info, param) ==
  LET src_type == TypeNamed("()")
      token_type_path == TokenTypePath(param.token_path, variant_info.token_ident)
      token_decl == TypeAlias(param.token_type_ident, None, MarkerType(token_type_path))
      src_generic == IF param.src_type_generic THEN Some(param.src_type_generic_ident)
                     ELSE None
      inner_decl == IF param.include_src_ty
                    THEN <<TypeAlias(param.src_type_ident, src_generic, src_type)>>
                    ELSE <<>>
      type_declarations == IF param.all_unit_variants THEN <<token_decl>>
                           ELSE inner_decl \o <<token_decl>>
      dest_generic == IF param.dest_type_generic THEN Some(param.dest_type_generic_ident)
                      ELSE None
      dest_constr_generic ==
        IF param.dest_constraint_generic THEN Some(param.dest_constraint_generic_ident)
        ELSE None
      dest_type_decl ==
        IF param.include_dest
        THEN <<TypeAlias(param.dest_type_ident, dest_generic,
                         AssocType(param.dest_enum_ident, dest_generic,
                                   "EnumVariantDowncast", token_type_path, "Target"))>>
        ELSE <<>>
      dest_constraint_decl ==
        IF param.dest_constraint
        THEN <<TypeAlias(param.dest_constraint_ident, dest_constr_generic,
                         AssocType(param.dest_enum_ident, dest_constr_generic,
                                   "EnumVariantConstraint", token_type_path,
                                   "Constraint"))>>
        ELSE <<>>
      inner_unit_binding ==
        IF param.include_inner /\ variant_info.is_unit /\ ~param.all_unit_variants
        THEN Some(param.inner_ident)
        ELSE None
  IN  [inner_unit_binding |-> inner_unit_binding,
       types |-> type_declarations \o dest_type_decl \o dest_constraint_decl,
       body |-> Some(param.user_body_code)]

\* The destination type alias goes through the constraint trait.
generate_match_arm_content_DestByConstraint(variant_info, param) ==
  LET src_type == IF variant_info.inner_type = None THEN TypeNamed("()")
                  ELSE TypeNamed(variant_info.inner_type[1])
      token_type_path == TokenTypePath(param.token_path, variant_info.token_ident)
      token_decl == TypeAlias(param.token_type_ident, None, MarkerType(token_type_path))
      src_generic == IF param.src_type_generic THEN Some(param.src_type_generic_ident)
                     ELSE None
      inner_decl == IF param.include_src_ty
                    THEN <<TypeAlias(param.src_type_ident, src_generic, src_type)>>
                    ELSE <<>>
      type_declarations == IF param.all_unit_variants THEN <<token_decl>>
                           ELSE inner_decl \o <<token_decl>>
      dest_generic == IF param.dest_type_generic THEN Some(param.dest_type_generic_ident)
                      ELSE None
      dest_constr_generic ==
        IF param.dest_constraint_generic THEN Some(param.dest_constraint_generic_ident)
        ELSE None
      dest_type_decl ==
        IF param.include_dest
        THEN <<TypeAlias(param.dest_type_ident, dest_generic,
                         AssocType(param.dest_enum_ident, dest_generic,
                                   "EnumVariantConstraint", token_type_path,
                                   "Constraint"))>>
        ELSE <<>>
      dest_constraint_decl ==
        IF param.dest_constraint
        THEN <<TypeAlias(param.dest_constraint_ident, dest_constr_generic,
                         AssocType(param.dest_enum_ident, dest_constr_generic,
                                   "EnumVariantConstraint", token_type_path,
                                   "Constraint"))>>
        ELSE <<>>
      inner_unit_binding ==
        IF param.include_inner /\ variant_info.is_unit /\ ~param.all_unit_variants
        THEN Some(param.inner_ident)
        ELSE None
  IN  [inner_unit_binding |-> inner_unit_binding,
       types |-> type_declarations \o dest_type_decl \o dest_constraint_decl,
       body |-> Some(param.user_body_code)]

\* pub fn generate_match_arm_content(variant_info, param) -> TokenStream2
generate_match_arm_content(variant_info, param) ==
  LET src_type == IF variant_info.inner_type = None THEN TypeNamed("()")
                  ELSE TypeNamed(variant_info.inner_type[1])
      token_type_path == TokenTypePath(param.token_path, variant_info.token_ident)
      token_decl == TypeAlias(param.token_type_ident, None, MarkerType(token_type_path))
      src_generic == IF param.src_type_generic THEN Some(param.src_type_generic_ident)
                     ELSE None
      inner_decl == IF param.include_src_ty
                    THEN <<TypeAlias(param.src_type_ident, src_generic, src_type)>>
                    ELSE <<>>
      type_declarations == IF param.all_unit_variants THEN <<token_decl>>
                           ELSE inner_decl \o <<token_decl>>
      dest_generic == IF param.dest_type_generic THEN Some(param.dest_type_generic_ident)
                      ELSE None
      dest_constr_generic ==
        IF param.dest_constraint_generic THEN Some(param.dest_constraint_generic_ident)
        ELSE None
      dest_type_decl ==
        IF param.include_dest
        THEN <<TypeAlias(param.dest_type_ident, dest_generic,
                         AssocType(param.dest_enum_ident, dest_generic,
                                   "EnumVariantDowncast", token_type_path, "Target"))>>
        ELSE <<>>
      dest_constraint_decl ==
        IF param.dest_constraint
        THEN <<TypeAlias(param.dest_constraint_ident, dest_constr_generic,
                         AssocType(param.dest_enum_ident, dest_constr_generic,
                                   "EnumVariantConstraint", token_type_path,
                                   "Constraint"))>>
        ELSE <<>>
      inner_unit_binding ==
        IF param.include_inner /\ variant_info.is_unit /\ ~param.all_unit_variants
        THEN Some(param.inner_ident)
        ELSE None
  IN  [inner_unit_binding |-> inner_unit_binding,
       types |-> type_declarations \o dest_type_decl \o dest_constraint_decl,
       body |-> Some(param.user_body_code)]

\* The pattern of an arm: Enum::Variant, Enum::Variant(_) or
\* Enum::Variant(binder).
Pattern(enum_name, variant_ident, form, binder) ==
  [enum |-> enum_name, variant |-> variant_ident, form |-> form, binder |-> binder]

\* The last variant gets no arm.
generate_match_arms_for_regular_matcher_DropLast(param, parsed_variants) ==
  [i \in 1..(Len(parsed_variants) - 1) |->
     [pattern |-> Pattern(param.enum_name, parsed_variants[i].variant_ident,
                          "path", None),
      content |-> generate_match_arm_content(parsed_variants[i], param)]]

\* The payload is never named: the binder is a wildcard whatever is asked.
generate_match_arms_for_regular_matcher_Wildcard(param, parsed_variants) ==
  [i \in DOMAIN parsed_variants |->
     LET v == parsed_variants[i]
         pattern ==
           IF v.is_unit THEN Pattern(param.enum_name, v.variant_ident, "path", None)
           ELSE Pattern(param.enum_name, v.variant_ident, "tuple", Some("_"))
     IN  [pattern |-> pattern, content |-> generate_match_arm_content(v, param)]]

\* pub fn generate_match_arms_for_regular_matcher(param, parsed_variants)
generate_match_arms_for_regular_matcher(param, parsed_variants) ==
  [i \in DOMAIN parsed_variants |->
     LET v == parsed_variants[i]
         pattern ==
           IF v.is_unit THEN Pattern(param.enum_name, v.variant_ident, "path", None)
           ELSE IF ~param.include_inner
           THEN Pattern(param.enum_name, v.variant_ident, "tuple", Some("_"))
           ELSE Pattern(param.enum_name, v.variant_ident, "tuple",
                        Some(param.inner_ident))
     IN  [pattern |-> pattern, content |-> generate_match_arm_content(v, param)]]

\* The six facets of a macro rule.
Flags ==
  [include_src_ty : BOOLEAN, include_inner : BOOLEAN, src_type_generic : BOOLEAN,
   include_dest : BOOLEAN, dest_type_generic : BOOLEAN, dest_constraint : BOOLEAN]

\* The suffix is left out of the name.
binding_ts_NoSuffix(name, bindname_suffix) == name

\* format!("{}{}", name, suffix)
binding_ts(name, bindname_suffix) ==
  name \o (IF bindname_suffix = None THEN "" ELSE ToString(bindname_suffix[1]))

\* pub fn generate_macro_rule_arm(enum_name, parsed_variants, tokens_path,
\* dtype_variant_path, bindname_suffix) and the closure it returns, applied
\* to the facets.
generate_macro_rule_arm(enum_name, parsed_variants, tokens_path, dtype_variant_path, bindname_suffix, flags) ==
  LET all_unit_variants == \A i \in DOMAIN parsed_variants : parsed_variants[i].is_unit
      b(name) == binding_ts(name, bindname_suffix)
      param ==
        [inner_ident |-> b("$inner"),
         token_type_ident |-> b("$TokenTy"),
         src_type_ident |-> b("$SrcTy"),
         src_type_generic_ident |-> b("$SrcGen"),
         dest_enum_ident |-> b("$DestEnum"),
         dest_type_ident |-> b("$DestTy"),
         dest_type_generic_ident |-> b("$DestGen"),
         dest_constraint_ident |-> b("$ConstraintTy"),
         dest_constraint_generic_ident |-> b("$ConstraintGen"),
         include_src_ty |-> flags.include_src_ty,
         include_inner |-> flags.include_inner,
         src_type_generic |-> flags.src_type_generic,
         include_dest |-> flags.include_dest,
         dest_constraint |-> flags.dest_constraint,
         dest_type_generic |-> flags.dest_type_generic,
         user_body_code |-> b("$body"),
         enum_name |-> enum_name,
         all_unit_variants |-> all_unit_variants,
         dest_constraint_generic |-> flags.dest_type_generic,
         token_path |-> tokens_path,
         dtype_variant_path |-> dtype_variant_path]
      match_arms == generate_match_arms_for_regular_matcher(param, parsed_variants)
      source_enum_type ==
        IF flags.include_src_ty
        THEN [enum |-> b("$enum_"), src |-> Some(b("$SrcTy")),
              src_generic |-> IF flags.src_type_generic THEN Some(b("$SrcGen")) ELSE None,
              token |-> b("$TokenTy")]
        ELSE [enum |-> b("$enum_"), src |-> None, src_generic |-> None,
              token |-> b("$TokenTy")]
      macro_arm_inner == IF flags.include_inner THEN Some(b("$inner")) ELSE None
      dest_generic == IF flags.dest_type_generic THEN Some(b("$DestGen")) ELSE None
      dest_constr_generic ==
        IF flags.dest_type_generic THEN Some(b("$ConstraintGen")) ELSE None
      dest_enum_type ==
        IF flags.include_dest /\ flags.dest_constraint
        THEN Some([enum |-> b("$DestEnum"), ty |-> Some(b("$DestTy")),
                   ty_generic |-> dest_generic,
                   constraint |-> Some(b("$ConstraintTy")),
                   constraint_generic |-> dest_constr_generic])
        ELSE IF flags.include_dest
        THEN Some([enum |-> b("$DestEnum"), ty |-> Some(b("$DestTy")),
                   ty_generic |-> dest_generic,
                   constraint |-> None, constraint_generic |-> None])
        ELSE IF flags.dest_constraint
        THEN Some([enum |-> b("$DestEnum"), ty |-> None, ty_generic |-> None,
                   constraint |-> Some(b("$ConstraintTy")),
                   constraint_generic |-> dest_constr_generic])
        ELSE None
  IN  [pattern_prefix_fragment |-> source_enum_type,
       pattern_suffix_fragment |->
         [inner |-> macro_arm_inner, dest |-> dest_enum_type, body |-> b("$body")],
       variant_bodies |-> match_arms]

(***************************************************************************)
(* The grouping attribute, #[dtype_grouped_matcher(name = .., grouping =   *)
(* [Group(A | B), ..])], as the syntax tree handed to the parser.          *)
(***************************************************************************)
Ok(x) == [ok |-> TRUE, value |-> x]

Err(msg) == [ok |-> FALSE, error |-> msg]

\* The left operand of | is not visited.
RECURSIVE extract_variants_DropLeft(_, _)
extract_variants_DropLeft(expr, variants) ==
  IF expr.k = "binary" /\ expr.op = "|"
  THEN extract_variants_DropLeft(expr.right, variants)
  ELSE IF expr.k = "path"
  THEN IF expr.ident = None THEN Err("Expected variant identifier")
       ELSE Ok(Append(variants, expr.ident[1]))
  ELSE Err("Expected variants separated by | or a single variant identifier")

\* A variant already in the vector is not pushed again.
RECURSIVE extract_variants_Dedup(_, _)
extract_variants_Dedup(expr, variants) ==
  IF expr.k = "binary" /\ expr.op = "|"
  THEN LET l == extract_variants_Dedup(expr.left, variants)
       IN  IF ~l.ok THEN l ELSE extract_variants_Dedup(expr.right, l.value)
  ELSE IF expr.k = "path"
  THEN IF expr.ident = None THEN Err("Expected variant identifier")
       ELSE IF expr.ident[1] \in Range(variants) THEN Ok(variants)
       ELSE Ok(Append(variants, expr.ident[1]))
  ELSE Err("Expected variants separated by | or a single variant identifier")

\* The right operand of | is read before the left one.
RECURSIVE extract_variants_RightFirst(_, _)
extract_variants_RightFirst(expr, variants) ==
  IF expr.k = "binary" /\ expr.op = "|"
  THEN LET r == extract_variants_RightFirst(expr.right, variants)
       IN  IF ~r.ok THEN r ELSE extract_variants_RightFirst(expr.left, r.value)
  ELSE IF expr.k = "path"
  THEN IF expr.ident = None THEN Err("Expected variant identifier")
       ELSE Ok(Append(variants, expr.ident[1]))
  ELSE Err("Expected variants separated by | or a single variant identifier")

\* fn extract_variants(expr, variants) -> darling::Result<()>; an Ok result
\* carries the variants vector as the call leaves it.
RECURSIVE extract_variants(_, _)
extract_variants(expr, variants) ==
  IF expr.k = "binary" /\ expr.op = "|"
  THEN LET l == extract_variants(expr.left, variants)
       IN  IF ~l.ok THEN l ELSE extract_variants(expr.right, l.value)
  ELSE IF expr.k = "path"
  THEN IF expr.ident = None THEN Err("Expected variant identifier")
       ELSE Ok(Append(variants, expr.ident[1]))
  ELSE Err("Expected variants separated by | or a single variant identifier")

\* Only a call without arguments is refused; of several arguments the
\* first is read.
ParseGroup_FirstArg(elem) ==
  IF elem.k # "call"
  THEN Err("Expected group definition in the format GroupName(Variant | ...)")
  ELSE IF elem.func.k # "path" \/ elem.func.ident = None
  THEN Err("Expected group name identifier")
  ELSE IF Len(elem.args) = 0
  THEN Err("Group " \o elem.func.ident[1]
           \o " expects exactly one argument (a list of variants separated by |)")
  ELSE LET vs == extract_variants(elem.args[1], <<>>)
       IN  IF ~vs.ok THEN vs
           ELSE IF vs.value = <<>> THEN Err("Group variant list cannot be empty")
           ELSE Ok(<<elem.func.ident[1], vs.value>>)

\* One iteration of for elem in &meta_list.elems: the group it pushes.
ParseGroup(elem) ==
  IF elem.k # "call"
  THEN Err("Expected group definition in the format GroupName(Variant | ...)")
  ELSE IF elem.func.k # "path" \/ elem.func.ident = None
  THEN Err("Expected group name identifier")
  ELSE IF Len(elem.args) # 1
  THEN Err("Group " \o elem.func.ident[1]
           \o " expects exactly one argument (a list of variants separated by |)")
  ELSE LET vs == extract_variants(elem.args[1], <<>>)
       IN  IF ~vs.ok THEN vs
           ELSE IF vs.value = <<>> THEN Err("Group variant list cannot be empty")
           ELSE Ok(<<elem.func.ident[1], vs.value>>)

\* A group whose name was already pushed is merged into that group.
RECURSIVE ParseElems_Merge(_, _, _)
ParseElems_Merge(elems, i, groups) ==
  IF i > Len(elems) THEN Ok(groups)
  ELSE LET g == ParseGroup(elems[i])
       IN  IF ~g.ok THEN g
           ELSE IF \E j \in DOMAIN groups : groups[j][1] = g.value[1]
           THEN ParseElems_Merge(elems, i + 1,
                  [j \in DOMAIN groups |->
                     IF groups[j][1] = g.value[1]
                     THEN <<groups[j][1], groups[j][2] \o g.value[2]>>
                     ELSE groups[j]])
           ELSE ParseElems_Merge(elems, i + 1, Append(groups, g.value))

\* The loop stops at the first element that fails and keeps the groups
\* pushed before it.
RECURSIVE ParseElems_Partial(_, _, _)
ParseElems_Partial(elems, i, groups) ==
  IF i > Len(elems) THEN Ok(groups)
  ELSE LET g == ParseGroup(elems[i])
       IN  IF ~g.ok THEN Ok(groups)
           ELSE ParseElems_Partial(elems, i + 1, Append(groups, g.value))

\* The loop over the array elements, from element i on.
RECURSIVE ParseElems(_, _, _)
ParseElems(elems, i, groups) ==
  IF i > Len(elems) THEN Ok(groups)
  ELSE LET g == ParseGroup(elems[i])
       IN  IF ~g.ok THEN g ELSE ParseElems(elems, i + 1, Append(groups, g.value))

\* impl FromMeta for ParsedGroups
from_meta(item) ==
  IF item.k = "namevalue" /\ item.path = "grouping"
  THEN IF item.value.k # "array"
       THEN Err("grouping value must be a list in brackets [...]")
       ELSE LET gs == ParseElems(item.value.elems, 1, <<>>)
            IN  IF ~gs.ok THEN gs
                ELSE IF gs.value = <<>>
                THEN Err("grouping list must define at least one group")
                ELSE gs
  ELSE IF item.k = "metapath" /\ item.path = "grouping"
  THEN Err("grouping requires a value: grouping = [...]")
  ELSE Err("Expected grouping = [...]")

(***************************************************************************)
(* The grouping validator: the parsed groups against the enum's variants.  *)
(***************************************************************************)
GroupingError(kind, name, names) == [kind |-> kind, name |-> name, names |-> names]

VariantNames(s) == {v.name : v \in VariantsOf(s)}

\* Every (group index, member index) of the parsed groups.
MemberSlots(groups) ==
  UNION {{<<i, j>> : j \in DOMAIN groups[i][2]} : i \in DOMAIN groups}

MemberAt(groups, slot) == groups[slot[1]][2][slot[2]]

Listed(groups) == {MemberAt(groups, sl) : sl \in MemberSlots(groups)}

\* All the failures of a grouping, reported together.
Validate(s, groups) ==
  LET slots == MemberSlots(groups)
      twice == {x \in slots :
                  \E y \in slots : y # x /\ MemberAt(groups, y) = MemberAt(groups, x)}
      missing == VariantNames(s) \ Listed(groups)
  IN  {GroupingError("UnknownVariant", n, {}) : n \in Listed(groups) \ VariantNames(s)}
      \cup {GroupingError("DuplicateVariant", MemberAt(groups, x), {}) : x \in twice}
      \cup {GroupingError("EmptyGroup", groups[i][1], {}) :
              i \in {i \in DOMAIN groups : groups[i][2] = <<>>}}
      \cup {GroupingError("DuplicateGroup", groups[i][1], {}) :
              i \in {i \in DOMAIN groups :
                       \E j \in DOMAIN groups : j # i /\ groups[j][1] = groups[i][1]}}
      \cup (IF missing = {} THEN {}
            ELSE {GroupingError("MissingVariants", "", missing)})

\* The group a variant of a validated grouping belongs to.
GroupOf(groups, variant) ==
  groups[(CHOOSE sl \in MemberSlots(groups) : MemberAt(groups, sl) = variant)[1]][1]

\* GroupPartition: the groups in written order and each variant's group.
GroupPartition(s, groups) ==
  [order |-> [i \in DOMAIN groups |-> groups[i][1]],
   group_of |-> [n \in VariantNames(s) |-> GroupOf(groups, n)]]

\* Parsing and validating one grouping attribute of enum s.
DeriveGrouping(s, item) ==
  LET parsed == from_meta(item)
  IN  IF ~parsed.ok
      THEN [accepted |-> FALSE, errors |-> {GroupingError("Parse", parsed.error, {})}]
      ELSE LET errors == Validate(s, parsed.value)
           IN  IF errors # {} THEN [accepted |-> FALSE, errors |-> errors]
               ELSE [accepted |-> TRUE, errors |-> {},
                     partition |-> GroupPartition(s, parsed.value)]

(***************************************************************************)
(* The dispatch macros of an enum and their expansion on a value.          *)
(***************************************************************************)
\* macro_rules! <matcher>: the rule for one combination of facets.
PlainMatcher(s, flags) ==
  generate_macro_rule_arm(s.name, ParsedVariants(s), TokenPath(s), "dtype_variant",
                          None, flags)

\* The index in the partition's order of a variant's group.
GroupIndex(partition, variant) ==
  CHOOSE i \in DOMAIN partition.order : partition.order[i] = partition.group_of[variant]

\* macro_rules! <grouped matcher>: one arm per variant, in declaration
\* order, built with the metavariables of the variant's group.
GroupedArms(s, partition, flags) ==
  [i \in DOMAIN s.variants |->
     generate_macro_rule_arm(s.name, ParsedVariants(s), TokenPath(s), "dtype_variant",
                             Some(GroupIndex(partition, s.variants[i].name) - 1),
                             flags).variant_bodies[i]]

\* A missing trailing group is tolerated.
GroupedMacroMatches_Prefix(order, supplied) ==
  /\ Len(supplied) <= Len(order)
  /\ \A i \in DOMAIN supplied : supplied[i] = order[i]

\* The rule of the grouped macro names the groups of the partition, each
\* followed by its pattern and fragment: an invocation matches it when it
\* supplies exactly those groups.
GroupedMacroMatches(order, supplied) ==
  /\ Len(supplied) = Len(order)
  /\ \A i \in DOMAIN supplied : supplied[i] = order[i]

\* The fragment the caller wrote for the group whose $body the arm holds.
FragmentFor(order, body) ==
  LET hits == {i \in DOMAIN order : Some(binding_ts("$body", Some(i - 1))) = body}
  IN  IF hits = {} THEN None ELSE Some(order[CHOOSE i \in hits : TRUE])

\* The marker an arm's token alias names.
TokenOf(content) ==
  (CHOOSE t \in Range(content.types) : t.target.k = "marker").target.path

\* The associated type an arm's alias declares through the given trait of
\* the destination enum, None when the arm declares no such alias.
AssocOf(content, trait) ==
  LET decls == {t \in Range(content.types) :
                  t.target.k = "assoc" /\ t.target.trait = trait}
  IN  IF decls = {} THEN None ELSE Some((CHOOSE t \in decls : TRUE).target)

\* <Dest as EnumVariantDowncast<Marker>>::Target: the owned payload type of
\* the variant of dest the marker keys.
ResolveTarget(dest, assoc) ==
  LET v == ImplFor(dest, assoc.marker)
  IN  IF v.shape = "Unit" THEN "()" ELSE v.ty

\* The variants of dest a value of type ty converts into: impl From<ty>.
FromImpls(dest, ty) == {v \in VariantsOf(dest) : HasFrom(dest, v) /\ v.ty = ty}

\* A pattern is accepted for a variant when its form is the form the enum
\* declares the variant in: Enum::V for a unit variant, Enum::V(..) for a
\* tuple variant, Enum::V { .. } for a struct variant.  A pattern of another
\* form is rejected when the expansion is compiled.
PatternFits(v, pattern) ==
  pattern.form = (CASE v.shape = "Unit" -> "path"
                    [] v.shape = "Tuple" -> "tuple"
                    [] v.shape = "Struct" -> "struct")

\* What the binder of an arm is bound to: the payload when the pattern is
\* accepted for the variant and names it, () in the arm of a unit variant
\* that declares the binder itself, nothing otherwise.
Bound(s, arm, e, byref) ==
  LET v == VariantNamed(s, e.tag)
  IN  IF arm.pattern.binder # None /\ arm.pattern.binder # Some("_")
      THEN IF PatternFits(v, arm.pattern)
           THEN Some(IF byref THEN RefPayload(v) ELSE OwnedPayload(v, e.fields))
           ELSE None
      ELSE IF arm.content.inner_unit_binding # None THEN Some(<<>>)
      ELSE None

\* match value { arms }: the first arm whose pattern names the value's
\* variant runs; None when no arm does.
RunMatch(s, arms, e, byref) ==
  LET hits == {i \in DOMAIN arms :
                 arms[i].pattern.enum = s.name /\ arms[i].pattern.variant = e.tag}
  IN  IF hits = {} THEN None
      ELSE LET i == CHOOSE i \in hits : \A j \in hits : i <= j
           IN  Some([arm |-> i, body |-> arms[i].content.body,
                     inner |-> Bound(s, arms[i], e, byref)])

(***************************************************************************)
(* The grouping attributes the derive may be handed: arrays of group       *)
(* definitions of weight at most MaxWeight, where each variant position    *)
(* weighs one and each malformation (a leaf that is no identifier, an      *)
(* operator other than |, a group name that is no identifier, an element   *)
(* that is no call, a second argument) one more.                           *)
(***************************************************************************)
MaxWeight == 3

LeafNames(s) == VariantNames(s) \cup {"Bogus"}

\* The variant expressions of weight exactly w.
RECURSIVE Trees(_, _)
Trees(s, w) ==
  (IF w = 1 THEN {PathIdent(n) : n \in LeafNames(s)} ELSE {})
  \cup (IF w = 2 THEN {PathQualified, Lit} ELSE {})
  \cup UNION {{Binary("|", l, r) : l \in Trees(s, i), r \in Trees(s, w - i)} :
                i \in 1..(w - 1)}
  \cup UNION {{Binary("&", l, r) : l \in Trees(s, i), r \in Trees(s, w - 1 - i)} :
                i \in 1..(w - 2)}

GroupNames == {"Numeric", "Text"}

\* The array elements of weight exactly w.
Elems(s, w) ==
  {Call(PathIdent(g), <<t>>) : g \in GroupNames, t \in Trees(s, w)}
  \cup {Call(f, <<t>>) : f \in {PathQualified, Lit}, t \in Trees(s, w - 1)}
  \cup (IF w = 1 THEN {Call(PathIdent(g), <<>>) : g \in GroupNames} ELSE {})
  \cup (IF w = 2 THEN {Lit} ELSE {})
  \cup UNION {{Call(PathIdent(g), <<l, r>>) :
                 g \in GroupNames, l \in Trees(s, i), r \in Trees(s, w - 1 - i)} :
                i \in 1..(w - 2)}

\* The arrays of weight exactly w.
RECURSIVE Arrays(_, _)
Arrays(s, w) ==
  IF w = 0 THEN {<<>>}
  ELSE UNION {{<<e>> \o rest : e \in Elems(s, c), rest \in Arrays(s, w - c)} :
                c \in 1..w}

Attrs(s) ==
  {MetaNameValue("grouping", Array(es)) :
     es \in UNION {Arrays(s, w) : w \in 0..MaxWeight}}
  \cup {MetaNameValue("grouping", Lit), MetaNameValue("name", Array(<<>>)),
        MetaPath("grouping"), MetaList("grouping")}

(***************************************************************************)
(* The accessor machine: one value of one derived enum, built by a literal *)
(* or a conversion, then read, borrowed and written through.               *)
(***************************************************************************)
VARIABLES
  schema,      \* the derived enum
  val,         \* Some(enum value), None once moved out
  res,         \* the last operation and what it returned
  borrow,      \* Some(the references of the outstanding &mut payload), None
  origin,      \* where val's contents come from: [via, variant, payload]
  lastWrite,   \* Some(the last write through a &mut since val was built)
  attr,        \* Some(the input handed to a macro or to the derive), None
  derived      \* Some(what the macro or the derive made of attr), None before it ran

vars == <<schema, val, res, borrow, origin, lastWrite, attr, derived>>

NoMarker == <<"", "">>

\* op: the operation; variant: the active variant when it ran; key: the
\* variant whose marker keyed the accessor; out: the Option it returned.
Op(op, variant, key, marker, out) ==
  [op |-> op, variant |-> variant, key |-> key, marker |-> marker, out |-> out]

Accessors == {"downcast", "downcast_ref", "downcast_mut"}

\* No value exists yet.
NoValue ==
  /\ val = None
  /\ res = Op("init", "", "", NoMarker, None)
  /\ borrow = None
  /\ origin = [via |-> "none", variant |-> "", payload |-> <<>>]
  /\ lastWrite = None

Init ==
  /\ schema \in Schemas
  /\ NoValue
  /\ attr = None
  /\ derived = None

\* let x = Enum::V(..): x holds no value yet, or was moved out of
Construct(v, st) ==
  /\ val = None
  /\ borrow = None
  /\ val' = Some(EnumValue(v, st))
  /\ res' = Op("new", v.name, "", NoMarker, None)
  /\ origin' = [via |-> "new", variant |-> v.name, payload |-> OwnedPayload(v, st)]
  /\ lastWrite' = None
  /\ UNCHANGED <<schema, borrow, attr, derived>>

\* let x = Enum::from(p): x holds no value yet, or was moved out of
Convert(v, p) ==
  /\ val = None
  /\ borrow = None
  /\ HasFrom(schema, v)
  /\ val' = Some(From(v, p))
  /\ res' = Op("from", v.name, "", NoMarker, None)
  /\ origin' = [via |-> "from", variant |-> v.name, payload |-> p]
  /\ lastWrite' = None
  /\ UNCHANGED <<schema, borrow, attr, derived>>

\* x.downcast::<WVariant>()
Downcast(w) ==
  LET marker == MarkerOf(schema, w.name)
  IN  /\ borrow = None
      /\ val # None
      /\ res' = Op("downcast", val[1].tag, w.name, marker,
                   downcast(schema, val[1], marker))
      /\ val' = None
      /\ UNCHANGED <<schema, borrow, origin, lastWrite, attr, derived>>

\* The call leaves the fields of the value zeroed.
DowncastRef_Zeroing(w) ==
  LET marker == MarkerOf(schema, w.name)
  IN  /\ borrow = None
      /\ val # None
      /\ res' = Op("downcast_ref", val[1].tag, w.name, marker,
                   downcast_ref(schema, val[1], marker))
      /\ val' = Some([val[1] EXCEPT !.fields = [f \in DOMAIN val[1].fields |-> 0]])
      /\ UNCHANGED <<schema, borrow, origin, lastWrite, attr, derived>>

\* x.downcast_ref::<WVariant>()
DowncastRef(w) ==
  LET marker == MarkerOf(schema, w.name)
  IN  /\ borrow = None
      /\ val # None
      /\ res' = Op("downcast_ref", val[1].tag, w.name, marker,
                   downcast_ref(schema, val[1], marker))
      /\ UNCHANGED <<schema, val, borrow, origin, lastWrite, attr, derived>>

\* let r = x.downcast_mut::<WVariant>()
DowncastMut(w) ==
  LET marker == MarkerOf(schema, w.name)
      out == downcast_mut(schema, val[1], marker)
  IN  /\ borrow = None
      /\ val # None
      /\ res' = Op("downcast_mut", val[1].tag, w.name, marker, out)
      /\ borrow' = IF out = None THEN None
                   ELSE Some(RefsIn(ImplFor(schema, marker), out[1]))
      /\ UNCHANGED <<schema, val, origin, lastWrite, attr, derived>>

\* *r = w for a tuple variant, *r.field = w for a struct variant
Write(w) ==
  /\ borrow # None
  /\ \E f \in DOMAIN borrow[1] :
       /\ val' = Some(WriteThrough(val[1], borrow[1][f], w))
       /\ lastWrite' = Some([tag |-> val[1].tag, field |-> f, value |-> w,
                             before |-> val[1].fields])
  /\ origin' = [via |-> "write", variant |-> val[1].tag, payload |-> <<>>]
  /\ res' = Op("write", val[1].tag, "", NoMarker, None)
  /\ UNCHANGED <<schema, borrow, attr, derived>>

\* the &mut borrow ends
Release ==
  /\ borrow # None
  /\ borrow' = None
  /\ res' = Op("release", val[1].tag, "", NoMarker, None)
  /\ UNCHANGED <<schema, val, origin, lastWrite, attr, derived>>

Next ==
  \/ \E v \in VariantsOf(schema) : \E st \in Storage(v) : Construct(v, st)
  \/ \E v \in VariantsOf(schema) : \E p \in Payloads(v) : Convert(v, p)
  \/ \E w \in VariantsOf(schema) : Downcast(w)
  \/ \E w \in VariantsOf(schema) : DowncastRef(w)
  \/ \E w \in VariantsOf(schema) : DowncastMut(w)
  \/ \E w \in Val : Write(w)
  \/ Release

Spec == Init /\ [][Next]_vars

(***************************************************************************)
(* The derive of one grouped matcher: a grouping attribute written on an   *)
(* enum is parsed and validated.                                           *)
(***************************************************************************)
GroupedSchemas == {DynChunk, MyData}

InitGroup ==
  /\ schema \in GroupedSchemas
  /\ NoValue
  /\ attr \in {Some(a) : a \in Attrs(schema)}
  /\ derived = None

\* #[dtype_grouped_matcher(name = .., grouping = [..])]
DeriveGroupedMatcher ==
  /\ attr # None
  /\ derived = None
  /\ derived' = Some(DeriveGrouping(schema, attr[1]))
  /\ UNCHANGED <<schema, val, res, borrow, origin, lastWrite, attr>>

NextGroup == DeriveGroupedMatcher

SpecGroup == InitGroup /\ [][NextGroup]_vars

(***************************************************************************)
(* The dispatch machine: a value of a derived enum is dispatched through   *)
(* the plain matcher or a grouped matcher of the enum.                     *)
(***************************************************************************)
InitDispatch ==
  /\ schema \in Schemas
  /\ NoValue
  /\ attr = None
  /\ derived = None

\* matcher!(value, Enum<..>(..) => { body }), value by value or by reference.
\* Each constructed value is dispatched once: the expansion is a function of
\* the value and the facets, a second dispatch reaches nothing new.
Dispatch(flags, byref) ==
  LET arms == PlainMatcher(schema, flags).variant_bodies
  IN  /\ borrow = None
      /\ val # None
      /\ res.op = "new"
      /\ res' = Op("match", val[1].tag, "", NoMarker,
                   [flags |-> flags, byref |-> byref,
                    patterns |-> [i \in DOMAIN arms |-> arms[i].pattern],
                    tokens |-> [i \in DOMAIN arms |-> TokenOf(arms[i].content)],
                    arms |-> arms,
                    ran |-> RunMatch(schema, arms, val[1], byref)])
      /\ val' = IF byref THEN val ELSE None
      /\ UNCHANGED <<schema, borrow, origin, lastWrite, attr, derived>>

\* grouped_matcher!(value, { Group: Enum<..>(..) => { body }, .. })
GroupedDispatch(g, flags, byref) ==
  LET d == DeriveGrouping(schema, schema.grouped[g].grouping)
      arms == GroupedArms(schema, d.partition, flags)
      ran == RunMatch(schema, arms, val[1], byref)
  IN  /\ borrow = None
      /\ val # None
      /\ res.op = "new"
      /\ d.accepted
      /\ res' = Op("match_grouped", val[1].tag, schema.grouped[g].name, NoMarker,
                   [flags |-> flags, byref |-> byref,
                    patterns |-> [i \in DOMAIN arms |-> arms[i].pattern],
                    tokens |-> [i \in DOMAIN arms |-> TokenOf(arms[i].content)],
                    arms |-> arms,
                    ran |-> ran,
                    fragment |-> IF ran = None THEN None
                                 ELSE FragmentFor(d.partition.order, ran[1].body)])
      /\ val' = IF byref THEN val ELSE None
      /\ UNCHANGED <<schema, borrow, origin, lastWrite, attr, derived>>

\* matcher!(kind, Src<Variant>, Dest<DestTy, ..> => { p.into() }) with p
\* of type DestTy: the instantiation compiles when dest implements the
\* accessor for the marker of every variant of the source enum and the
\* conversion from DestTy exists.
DispatchInto(dest, flags) ==
  LET arms == PlainMatcher(schema, flags).variant_bodies
      ran == RunMatch(schema, arms, val[1], FALSE)
      alias == AssocOf(arms[ran[1].arm].content, "EnumVariantDowncast")[1]
      ty == ResolveTarget(dest, alias)
  IN  /\ borrow = None
      /\ val # None
      /\ res.op = "new"
      /\ flags.include_dest
      /\ MarkersOf(schema) \subseteq MarkersOf(dest)
      /\ \A v \in VariantsOf(schema) :
           Cardinality(FromImpls(dest, ResolveTarget(dest,
                         [marker |-> MarkerOf(schema, v.name)]))) = 1
      /\ \E p \in Payloads(CHOOSE v \in FromImpls(dest, ty) : TRUE) :
           res' = Op("match_into", val[1].tag, dest.name, alias.marker,
                     [flags |-> flags, arms |-> arms, dest_ty |-> ty,
                      into |-> From(CHOOSE v \in FromImpls(dest, ty) : TRUE, p)])
      /\ val' = None
      /\ UNCHANGED <<schema, borrow, origin, lastWrite, attr, derived>>

MaxExtra == 1

\* The lists of group names an invocation may supply fragments for.
Supplied(order) ==
  UNION {[1..n -> Range(order) \cup {"Other"}] : n \in 0..(Len(order) + MaxExtra)}

\* The group names written in a grouping attribute of the repository.
GroupNamesOf(item) ==
  [i \in DOMAIN item.value.elems |-> item.value.elems[i].func.ident[1]]

\* grouped_matcher!(.., { G1: .. => { .. }, G2: .. => { .. }, .. }) is
\* expanded before the program runs, or no rule matches and no code is
\* produced.
InstantiateGrouped(g, supplied) ==
  LET d == DeriveGrouping(schema, schema.grouped[g].grouping)
  IN  /\ res.op = "init"
      /\ d.accepted
      /\ res' = Op("expand_grouped", "", schema.grouped[g].name, NoMarker,
                   [order |-> d.partition.order, supplied |-> supplied,
                    expanded |-> GroupedMacroMatches(d.partition.order, supplied)])
      /\ UNCHANGED <<schema, val, borrow, origin, lastWrite, attr, derived>>

NextDispatch ==
  \/ \E v \in VariantsOf(schema) : \E st \in Storage(v) : Construct(v, st)
  \/ \E flags \in Flags : \E byref \in BOOLEAN : Dispatch(flags, byref)
  \/ \E g \in DOMAIN schema.grouped : \E flags \in Flags : \E byref \in BOOLEAN :
       GroupedDispatch(g, flags, byref)
  \/ \E dest \in Schemas : \E flags \in Flags : DispatchInto(dest, flags)
  \/ \E g \in DOMAIN schema.grouped :
       \E supplied \in Supplied(GroupNamesOf(schema.grouped[g].grouping)) :
         InstantiateGrouped(g, supplied)

SpecDispatch == InitDispatch /\ [][NextDispatch]_vars

(***************************************************************************)
(* The shared-marker machine: a value of one of the two enums of           *)
(* examples/simple is combined with a value of the other.                  *)
(***************************************************************************)
SharedSchemas == {PlayerInput, AIBehavior}

PlayerPower == 50
AIPower == 30

InitShared ==
  /\ schema \in SharedSchemas
  /\ NoValue
  /\ attr = None
  /\ derived = None

Combined(Variant, own, other) ==
  LET action1 == IF schema = PlayerInput THEN own ELSE other
      action2 == IF schema = AIBehavior THEN own ELSE other
  IN  Op("combine", own.tag, ImplFor(schema, Variant).name, Variant,
         [action1 |-> action1, action2 |-> action2,
          out |-> combine_shared_actions(Variant, action1, action2)])

\* combine_shared_actions::<Variant, _>(&x, &other)
CombineShared(Variant, other) ==
  /\ borrow = None
  /\ val # None
  /\ WhereClauses(Variant)
  /\ res' = Combined(Variant, val[1], other)
  /\ UNCHANGED <<schema, val, borrow, origin, lastWrite, attr, derived>>

\* fn main(): PlayerInput::from(50_u32), AIBehavior::from(30_u32), combined
\* through AttackVariant.
Main ==
  LET Attack(s) == VariantNamed(s, "Attack")
      Power(s) == IF s = PlayerInput THEN PlayerPower ELSE AIPower
      own == From(Attack(schema), Power(schema))
  IN  /\ borrow = None
      /\ val' = Some(own)
      /\ origin' = [via |-> "from", variant |-> "Attack", payload |-> Power(schema)]
      /\ lastWrite' = None
      /\ \E o \in SharedSchemas \ {schema} :
           res' = Combined(<<"dtype_variant_example_shared::variants", "AttackVariant">>,
                           own, From(Attack(o), Power(o)))
      /\ UNCHANGED <<schema, borrow, attr, derived>>

NextShared ==
  \/ \E v \in VariantsOf(schema) : \E st \in Storage(v) : Construct(v, st)
  \/ \E v \in VariantsOf(schema) : \E p \in Payloads(v) : Convert(v, p)
  \/ \E w \in VariantsOf(schema) : DowncastRef(w)
  \/ \E o \in SharedSchemas \ {schema} :
       \E Variant \in MarkersOf(schema) \cup MarkersOf(o) : \E other \in ValuesOf(o) :
         CombineShared(Variant, other)
  \/ Main

SpecShared == InitShared /\ [][NextShared]_vars

(***************************************************************************)
(* The conversion machine: the enums of the repository, each derived with  *)
(* and without skip_from_impls, and the values built of them.              *)
(***************************************************************************)
WithSkipFrom(s, b) == [s EXCEPT !.skip_from = b]

InitConvert ==
  /\ schema \in {WithSkipFrom(s, b) : s \in Schemas, b \in BOOLEAN}
  /\ NoValue
  /\ attr = None
  /\ derived = None

NextConvert ==
  \/ \E v \in VariantsOf(schema) : \E st \in Storage(v) : Construct(v, st)
  \/ \E v \in VariantsOf(schema) : \E p \in Payloads(v) : Convert(v, p)
  \/ \E w \in VariantsOf(schema) : Downcast(w)

SpecConvert == InitConvert /\ [][NextConvert]_vars

(***************************************************************************)
(* The schema machine: an enum is declared with #[default] on some of its  *)
(* variants and the schema of the derive is built from the declaration.    *)
(***************************************************************************)
\* What the derive emits for an enum.
Artifacts(s) ==
  {[kind |-> "accessor", marker |-> m, op |-> a] : m \in MarkersOf(s), a \in Accessors}
  \cup {[kind |-> "conversion", variant |-> v.name] :
          v \in {v \in VariantsOf(s) : HasFrom(s, v)}}
  \cup {[kind |-> "matcher", enum |-> s.name]}
  \cup {[kind |-> "grouped_matcher", name |-> g.name] : g \in Range(s.grouped)}

\* The default marks are not counted.
BuildSchemaModel_NoCheck(s, marks) ==
  [ok |-> TRUE,
   model |-> [i \in DOMAIN s.variants |->
                [name |-> s.variants[i].name, shape |-> s.variants[i].shape,
                 is_default |-> marks[i]]],
   artifacts |-> Artifacts(s)]

\* SchemaModel extraction and validation of the default marks.
BuildSchemaModel(s, marks) ==
  IF Cardinality({i \in DOMAIN marks : marks[i]}) > 1
  THEN [ok |-> FALSE, error |-> "MultipleDefaults", artifacts |-> {}]
  ELSE [ok |-> TRUE,
        model |-> [i \in DOMAIN s.variants |->
                     [name |-> s.variants[i].name, shape |-> s.variants[i].shape,
                      is_default |-> marks[i]]],
        artifacts |-> Artifacts(s)]

InitSchema ==
  /\ schema \in Schemas
  /\ NoValue
  /\ attr \in {Some(marks) : marks \in [DOMAIN schema.variants -> BOOLEAN]}
  /\ derived = None

\* #[derive(DType)] on the declaration
BuildSchema ==
  /\ attr # None
  /\ derived = None
  /\ derived' = Some(BuildSchemaModel(schema, attr[1]))
  /\ UNCHANGED <<schema, val, res, borrow, origin, lastWrite, attr>>

NextSchema == BuildSchema

SpecSchema == InitSchema /\ [][NextSchema]_vars

(***************************************************************************)
(* The marker declaration machine: build_dtype_tokens!([..]) is handed a   *)
(* list of names and emits the marker structs.                             *)
(***************************************************************************)
MaxTokens == 4

TokenNames == {"U16", "U32", "U64"}

\* Punctuated<Ident, Token![,]>: any list of identifiers, repeats included.
TokenLists == UNION {[1..n -> TokenNames] : n \in 0..MaxTokens}

InitTokens ==
  /\ schema = MyEnum
  /\ NoValue
  /\ attr \in {Some(l) : l \in TokenLists}
  /\ derived = None

\* build_dtype_tokens!([..])
BuildDtypeTokens ==
  /\ attr # None
  /\ derived = None
  /\ derived' = Some(build_dtype_tokens(attr[1]))
  /\ UNCHANGED <<schema, val, res, borrow, origin, lastWrite, attr>>

NextTokens == BuildDtypeTokens

SpecTokens == InitTokens /\ [][NextTokens]_vars

(***************************************************************************)
(* The parsing machine: ParsedGroups::from_meta is handed one grouping     *)
(* attribute and returns Ok(groups) or Err(message).                       *)
(***************************************************************************)
InitParse ==
  /\ schema \in GroupedSchemas
  /\ NoValue
  /\ attr \in {Some(a) : a \in Attrs(schema)}
  /\ derived = None

\* ParsedGroups::from_meta(&item)
FromMeta ==
  /\ attr # None
  /\ derived = None
  /\ derived' = Some(from_meta(attr[1]))
  /\ UNCHANGED <<schema, val, res, borrow, origin, lastWrite, attr>>

NextParse == FromMeta

SpecParse == InitParse /\ [][NextParse]_vars

ShapeOf(s, n) == VariantNamed(s, n).shape

\* C1: round trip.  A value built from payload p by the conversion of
\* variant V and not written through since, when consumed by the owned
\* accessor keyed by V's marker, yields Some(p), p a value of V's owned
\* payload type (for a struct variant the record with one field per named
\* field).
RoundTrip ==
  (/\ res.op = "downcast"
   /\ origin.via = "from"
   /\ lastWrite = None
   /\ res.key = origin.variant)
  => /\ res.out = Some(origin.payload)
     /\ res.out[1] \in Payloads(VariantNamed(schema, origin.variant))

RoundTripWitness ==
  /\ schema = StructVariantData
  /\ res.op = "downcast"
  /\ origin.via = "from"
  /\ res.key = "Person"
  /\ res.out = Some([f \in {"name", "age"} |-> IF f = "name" THEN 1 ELSE 0])

\* C2: tag discrimination.  On a value whose active variant is V, each of
\* downcast, downcast_ref and downcast_mut keyed by the marker of another
\* variant W # V returns None (a normal Option result, for every shape).
TagDiscrimination ==
  (res.op \in Accessors /\ res.key # res.variant) => res.out = None

TagDiscriminationWitness ==
  /\ schema = GameEvent
  /\ res.op = "downcast_mut"
  /\ res.variant = "PlayerMove"
  /\ res.key = "ServerCrash"
  /\ res.out = None
  /\ borrow = None

\* C3: mutation visibility, tuple shape.  After w is written through the
\* reference downcast_mut returned for the active tuple variant, the enum
\* still has that variant, its payload is w, and downcast_ref and the
\* owned downcast keyed by that variant return Some of w.
MutationVisibleTuple ==
  (lastWrite # None /\ ShapeOf(schema, lastWrite[1].tag) = "Tuple")
  => /\ val # None =>
          /\ val[1].tag = lastWrite[1].tag
          /\ val[1].fields["0"] = lastWrite[1].value
     /\ (res.op \in {"downcast", "downcast_ref"} /\ res.key = lastWrite[1].tag) =>
          res.out # None
     /\ (res.op = "downcast" /\ res.out # None) => res.out[1] = lastWrite[1].value
     /\ (res.op = "downcast_ref" /\ res.out # None) =>
          Deref(val[1], res.out[1]) = lastWrite[1].value

MutationVisibleTupleWitness ==
  /\ schema = DynChunk
  /\ lastWrite # None
  /\ lastWrite[1].tag = "F32"
  /\ lastWrite[1].before["0"] = 0
  /\ lastWrite[1].value = 1
  /\ res.op = "downcast_ref"
  /\ res.key = "F32"

RECURSIVE WrittenIdents(_)
WrittenIdents(expr) ==
  IF expr.k = "binary" THEN WrittenIdents(expr.left) \o WrittenIdents(expr.right)
  ELSE IF expr.k = "path" /\ expr.ident # None THEN <<expr.ident[1]>>
  ELSE <<>>

RECURSIVE WrittenInArgs(_, _)
WrittenInArgs(args, i) ==
  IF i > Len(args) THEN <<>>
  ELSE WrittenIdents(args[i]) \o WrittenInArgs(args, i + 1)

RECURSIVE WrittenInElems(_, _)
WrittenInElems(elems, i) ==
  IF i > Len(elems) THEN <<>>
  ELSE (IF elems[i].k = "call" THEN WrittenInArgs(elems[i].args, 1) ELSE <<>>)
       \o WrittenInElems(elems, i + 1)

\* Every member name written in the groups of a grouping attribute.
WrittenMembers(item) ==
  IF item.k = "namevalue" /\ item.value.k = "array"
  THEN WrittenInElems(item.value.elems, 1)
  ELSE <<>>

Omitted(s, item) == VariantNames(s) \ Range(WrittenMembers(item))

WrittenTwice(item) ==
  LET m == WrittenMembers(item)
  IN  {m[i] : i \in {i \in DOMAIN m : \E j \in DOMAIN m : j # i /\ m[j] = m[i]}}

Malformed(d) == \E e \in d.errors : e.kind = "Parse"

\* C6: partition coverage.  A grouping whose member lists omit a variant of
\* the enum is rejected, with MissingVariants naming exactly the omitted
\* variants unless the attribute is malformed; an accepted grouping's
\* partition assigns a group to every variant.
PartitionCoverage ==
  derived # None =>
    /\ Omitted(schema, attr[1]) # {} =>
         /\ ~derived[1].accepted
         /\ ~Malformed(derived[1]) =>
              GroupingError("MissingVariants", "", Omitted(schema, attr[1]))
                \in derived[1].errors
    /\ derived[1].accepted =>
         /\ Omitted(schema, attr[1]) = {}
         /\ DOMAIN derived[1].partition.group_of = VariantNames(schema)

PartitionCoverageWitness ==
  /\ schema = MyData
  /\ attr = Some(MetaNameValue("grouping", Array(<<
              Call(PathIdent("Numeric"),
                   <<Binary("|", PathIdent("Int"), PathIdent("Float"))>>)>>)))
  /\ derived # None
  /\ ~derived[1].accepted
  /\ derived[1].errors = {GroupingError("MissingVariants", "", {"Str"})}

\* C7: partition disjointness.  A grouping in which a variant name is
\* written more than once, in one group or in two, is rejected, with
\* DuplicateVariant(name) for each such name unless the attribute is
\* malformed; in an accepted grouping no name is written twice.
PartitionDisjoint ==
  derived # None =>
    /\ WrittenTwice(attr[1]) # {} =>
         /\ ~derived[1].accepted
         /\ ~Malformed(derived[1]) =>
              \A n \in WrittenTwice(attr[1]) :
                GroupingError("DuplicateVariant", n, {}) \in derived[1].errors
    /\ derived[1].accepted => WrittenTwice(attr[1]) = {}

PartitionDisjointWitness ==
  /\ schema = DynChunk
  /\ attr = Some(MetaNameValue("grouping", Array(<<
              Call(PathIdent("Numeric"),
                   <<Binary("|", PathIdent("I32"), PathIdent("F32"))>>),
              Call(PathIdent("Text"), <<PathIdent("I32")>>)>>)))
  /\ derived # None
  /\ ~derived[1].accepted
  /\ derived[1].errors = {GroupingError("DuplicateVariant", "I32", {})}

\* The names of the groups whose written member list holds the variant.
WrittenGroupsOf(item, variant) ==
  {item.value.elems[i].func.ident[1] :
     i \in {i \in DOMAIN item.value.elems :
              variant \in Range(WrittenInArgs(item.value.elems[i].args, 1))}}

GroupingNamed(s, name) ==
  (CHOOSE g \in Range(s.grouped) : g.name = name).grouping

SharedCorrelation ==
  /\ \A s1, s2 \in Schemas :
       s1.path # "" /\ s1.path = s2.path =>
         \A v1 \in VariantsOf(s1), v2 \in VariantsOf(s2) :
           v1.name = v2.name => MarkerOf(s1, v1.name) = MarkerOf(s2, v2.name)
  /\ res.op = "combine" =>
       LET a == res.out.action1
           b == res.out.action2
       IN  /\ res.marker = MarkerOf(PlayerInput, res.key)
           /\ res.marker = MarkerOf(AIBehavior, res.key)
           /\ IF a.tag = res.key /\ b.tag = res.key
              THEN res.out.out = Some(a.fields["0"] + b.fields["0"])
              ELSE res.out.out = None

SharedCorrelationWitness ==
  /\ res.op = "combine"
  /\ res.key = "Attack"
  /\ res.out.action1 = From(VariantNamed(PlayerInput, "Attack"), 50)
  /\ res.out.action2 = From(VariantNamed(AIBehavior, "Attack"), 30)
  /\ res.out.out = Some(80)

\* C10: marker identity.  The marker of a variant is the type named
\* <VariantName>Variant in the enum's token scope, wherever it is assigned:
\* the declaration of the markers, the accessor keys and every arm of the
\* dispatch macro name the same one; two variant names of different
\* spelling never get the same marker within a scope, across enums too.
MarkerIdentity ==
  /\ \A s \in Schemas : \A i \in DOMAIN s.variants :
       /\ MarkerOf(s, s.variants[i].name)[1] = TokenPath(s)
       /\ MarkerOf(s, s.variants[i].name)[2] = s.variants[i].name \o "Variant"
       /\ MarkerOf(s, s.variants[i].name)[2]
            = build_dtype_tokens([j \in DOMAIN s.variants |-> s.variants[j].name])[i]
  /\ \A s \in Schemas :
       TokenPath(s) = TokenPath(schema) =>
         \A v1 \in VariantsOf(schema), v2 \in VariantsOf(s) :
           v1.name # v2.name => MarkerOf(schema, v1.name) # MarkerOf(s, v2.name)
  /\ res.op \in {"match", "match_grouped"} =>
       \A i \in DOMAIN res.out.tokens :
         res.out.tokens[i] = MarkerOf(schema, schema.variants[i].name)

MarkerIdentityWitness ==
  /\ schema = AIBehavior
  /\ res.op = "match"
  /\ res.variant = "Flee"
  /\ res.out.tokens[1] = <<"dtype_variant_example_shared::variants", "AttackVariant">>
  /\ \E v \in VariantsOf(PlayerInput) :
       /\ v.name \notin {w.name : w \in VariantsOf(AIBehavior)}
       /\ TokenPath(PlayerInput) = TokenPath(schema)

WrittenCalls(item) ==
  IF item.k = "namevalue" /\ item.value.k = "array"
  THEN {item.value.elems[i] :
          i \in {i \in DOMAIN item.value.elems : item.value.elems[i].k = "call"}}
  ELSE {}

\* The positions of the array at which a group with that name is written.
WrittenAt(item, name) ==
  IF item.k = "namevalue" /\ item.value.k = "array"
  THEN {i \in DOMAIN item.value.elems :
          /\ item.value.elems[i].k = "call"
          /\ item.value.elems[i].func.k = "path"
          /\ item.value.elems[i].func.ident = Some(name)}
  ELSE {}

\* C12: unknown variant.  A grouping in which a group lists a name that is
\* not a variant of the enum is rejected, with UnknownVariant(name) for
\* each such name unless the attribute is malformed; every member of an
\* accepted partition is a variant of the enum.
UnknownVariantRejected ==
  derived # None =>
    LET unknown == Range(WrittenMembers(attr[1])) \ VariantNames(schema)
    IN  /\ unknown # {} =>
             /\ ~derived[1].accepted
             /\ ~Malformed(derived[1]) =>
                  \A n \in unknown :
                    GroupingError("UnknownVariant", n, {}) \in derived[1].errors
        /\ derived[1].accepted =>
             /\ unknown = {}
             /\ DOMAIN derived[1].partition.group_of \subseteq VariantNames(schema)

UnknownVariantRejectedWitness ==
  /\ schema = DynChunk
  /\ attr = Some(MetaNameValue("grouping", Array(<<
              Call(PathIdent("Numeric"),
                   <<Binary("|", PathIdent("I32"), PathIdent("F32"))>>),
              Call(PathIdent("Text"), <<PathIdent("Bogus")>>)>>)))
  /\ derived # None
  /\ ~derived[1].accepted
  /\ derived[1].errors = {GroupingError("UnknownVariant", "Bogus", {})}

\* C13: group name uniqueness.  A grouping in which two groups carry the
\* same name is rejected, naming the group unless the attribute is
\* malformed; the group names of an accepted grouping are pairwise
\* distinct.
GroupNamesUnique ==
  derived # None =>
    LET twice == {g \in GroupNames : Cardinality(WrittenAt(attr[1], g)) > 1}
    IN  /\ twice # {} =>
             /\ ~derived[1].accepted
             /\ ~Malformed(derived[1]) =>
                  \A g \in twice :
                    GroupingError("DuplicateGroup", g, {}) \in derived[1].errors
        /\ derived[1].accepted =>
             /\ twice = {}
             /\ \A i, j \in DOMAIN derived[1].partition.order :
                  i # j => derived[1].partition.order[i] # derived[1].partition.order[j]

GroupNamesUniqueWitness ==
  /\ schema = DynChunk
  /\ attr = Some(MetaNameValue("grouping", Array(<<
              Call(PathIdent("Numeric"), <<PathIdent("I32")>>),
              Call(PathIdent("Numeric"), <<PathIdent("F32")>>)>>)))
  /\ derived # None
  /\ ~derived[1].accepted
  /\ derived[1].errors = {GroupingError("DuplicateGroup", "Numeric", {})}

\* C14: no empty group.  A group written with no argument, or with more
\* than one, is refused by the parser, and so is a grouping list without
\* groups; every group of an accepted grouping has a member variant.
NoEmptyGroup ==
  derived # None =>
    /\ (\E c \in WrittenCalls(attr[1]) : Len(c.args) # 1) =>
         /\ ~derived[1].accepted
         /\ Malformed(derived[1])
    /\ attr[1] = MetaNameValue("grouping", Array(<<>>)) =>
         /\ ~derived[1].accepted
         /\ derived[1].errors =
              {GroupingError("Parse", "grouping list must define at least one group", {})}
    /\ derived[1].accepted =>
         /\ derived[1].partition.order # <<>>
         /\ \A i \in DOMAIN derived[1].partition.order :
              \E n \in VariantNames(schema) :
                derived[1].partition.group_of[n] = derived[1].partition.order[i]

NoEmptyGroupWitness ==
  /\ schema = DynChunk
  /\ attr = Some(MetaNameValue("grouping", Array(<<
              Call(PathIdent("Numeric"),
                   <<Binary("|", PathIdent("I32"), PathIdent("F32"))>>),
              Call(PathIdent("Text"), <<>>)>>)))
  /\ derived # None
  /\ ~derived[1].accepted
  /\ Malformed(derived[1])

\* C15: grouped dispatch fragment set.  An invocation of a grouped macro
\* produces no code when a group of the partition gets no fragment or a
\* fragment names a group outside the partition; it is expanded only when
\* the supplied group names are exactly the partition's.
FragmentSetExact ==
  res.op = "expand_grouped" =>
    LET groups == Range(res.out.order)
        given == Range(res.out.supplied)
    IN  /\ groups \ given # {} => ~res.out.expanded
        /\ given \ groups # {} => ~res.out.expanded
        /\ res.out.expanded => given = groups

FragmentSetExactWitness ==
  /\ schema = MyData
  /\ res.op = "expand_grouped"
  /\ res.key = "match_by_category"
  /\ res.out.supplied = <<"Numeric", "Text", "Other">>
  /\ ~res.out.expanded

\* C16: conversions by shape.  Without skip_from_impls every tuple variant
\* has a conversion from its bare payload and every struct variant one from
\* its owned record, unit variants have none; with skip_from_impls no
\* variant has one.  A converted value is the variant holding the payload,
\* field by field for a struct variant.
ConversionsByShape ==
  /\ \A v \in VariantsOf(schema) :
       HasFrom(schema, v) <=> (~schema.skip_from /\ v.shape \in {"Tuple", "Struct"})
  /\ (origin.via = "from" /\ val # None) =>
       LET v == VariantNamed(schema, origin.variant)
       IN  /\ ~schema.skip_from
           /\ v.shape # "Unit"
           /\ val[1].tag = origin.variant
           /\ DOMAIN val[1].fields = FieldSet(v)
           /\ v.shape = "Tuple" => val[1].fields["0"] = origin.payload
           /\ v.shape = "Struct" =>
                /\ DOMAIN origin.payload = FieldSet(v)
                /\ \A f \in FieldSet(v) : val[1].fields[f] = origin.payload[f]

ConversionsByShapeWitness ==
  /\ schema = StructVariantData
  /\ origin.via = "from"
  /\ origin.variant = "Person"
  /\ origin.payload = [f \in {"name", "age"} |-> IF f = "name" THEN 0 ELSE 1]
  /\ val = Some(EnumValue(VariantNamed(schema, "Person"),
                          [f \in {"name", "age"} |-> IF f = "name" THEN 0 ELSE 1]))

\* C17: schema validation of defaults.  A declaration with more than one
\* variant marked default fails with MultipleDefaults and nothing is
\* emitted for the enum; a schema that was built has at most one default
\* variant.
AtMostOneDefault ==
  derived # None =>
    /\ Cardinality({i \in DOMAIN attr[1] : attr[1][i]}) > 1 =>
         /\ ~derived[1].ok
         /\ derived[1].error = "MultipleDefaults"
         /\ derived[1].artifacts = {}
    /\ derived[1].ok =>
         /\ Cardinality({i \in DOMAIN derived[1].model : derived[1].model[i].is_default}) <= 1
         /\ derived[1].artifacts # {}

AtMostOneDefaultWitness ==
  /\ schema = MyEnumVariant
  /\ attr = Some(<<FALSE, TRUE, TRUE>>)
  /\ derived # None
  /\ ~derived[1].ok
  /\ derived[1].error = "MultipleDefaults"

\* C18: by-reference accessor content.  downcast_ref keyed by the active
\* variant returns a view of the stored payload: a reference to the payload
\* of a tuple variant, a record of one reference per named field of a
\* struct variant, each into the enum's field of that name, so that
\* dereferencing yields what the enum stores; the owned, reference and
\* mutable-reference records of a struct variant have the same fields in
\* declared order.
RefViewsStored ==
  /\ \A v \in VariantsOf(schema) :
       v.shape = "Struct" =>
         /\ RefRecord(v).fields = v.fields
         /\ OwnedRecord(v).fields = RefRecord(v).fields
         /\ MutRecord(v).fields = RefRecord(v).fields
         /\ DOMAIN RefPayload(v) = Range(RefRecord(v).fields)
         /\ DOMAIN MutPayload(v) = Range(MutRecord(v).fields)
         /\ \A st \in Storage(v) :
              DOMAIN OwnedPayload(v, st) = Range(OwnedRecord(v).fields)
  /\ (res.op = "downcast_ref" /\ res.key = res.variant) =>
       LET v == VariantNamed(schema, res.variant)
           built == lastWrite = None /\ origin.via \in {"new", "from"}
       IN  /\ res.out # None
           /\ v.shape = "Tuple" =>
                /\ res.out[1] = RefTo("self", "0")
                /\ Deref(val[1], res.out[1]) = val[1].fields["0"]
                /\ built => Deref(val[1], res.out[1]) = origin.payload
           /\ v.shape = "Struct" =>
                /\ DOMAIN res.out[1] = FieldSet(v)
                /\ \A f \in FieldSet(v) :
                     /\ res.out[1][f] = RefTo("self", f)
                     /\ Deref(val[1], res.out[1][f]) = val[1].fields[f]
                     /\ built => Deref(val[1], res.out[1][f]) = origin.payload[f]

RefViewsStoredWitness ==
  /\ schema = StructVariantData
  /\ res.op = "downcast_ref"
  /\ res.key = "Person"
  /\ res.variant = "Person"
  /\ lastWrite = None
  /\ origin.payload = [f \in {"name", "age"} |-> IF f = "name" THEN 1 ELSE 0]
  /\ res.out # None
  /\ Deref(val[1], res.out[1]["name"]) = 1
  /\ Deref(val[1], res.out[1]["age"]) = 0

\* The type a source-payload alias of an arm names, None when the arm
\* declares no such alias.
SrcTypeOf(content) ==
  LET decls == {t \in Range(content.types) : t.target.k = "type"}
  IN  IF decls = {} THEN None ELSE Some((CHOOSE t \in decls : TRUE).target.ty)

\* The payload type of a variant as the arm of that variant names it.
PayloadTypeOf(v) == IF v.shape = "Unit" THEN "()" ELSE v.ty

\* C19: per-variant instantiation in grouped dispatch.  A grouped matcher
\* has one arm per variant of the enum, in declaration order; the fragment
\* of a group stands in the arm of each of its member variants and in no
\* other, and in each arm the marker alias and, when requested, the
\* payload-type alias are those of the arm's own variant.
PerVariantInstantiation ==
  res.op = "match_grouped" =>
    LET arms == res.out.arms
        item == GroupingNamed(schema, res.key)
        order == GroupNamesOf(item)
    IN  /\ Len(arms) = Len(schema.variants)
        /\ \A i \in DOMAIN arms :
             LET v == schema.variants[i]
             IN  /\ arms[i].pattern.variant = v.name
                 /\ arms[i].content.body # None
                 /\ FragmentFor(order, arms[i].content.body) # None
                 /\ WrittenGroupsOf(item, v.name)
                      = {FragmentFor(order, arms[i].content.body)[1]}
                 /\ TokenOf(arms[i].content) = MarkerOf(schema, v.name)
                 /\ SrcTypeOf(arms[i].content)
                      = IF res.out.flags.include_src_ty THEN Some(PayloadTypeOf(v))
                        ELSE None

PerVariantInstantiationWitness ==
  /\ schema = MyData
  /\ res.op = "match_grouped"
  /\ res.key = "match_by_category"
  /\ res.out.flags.include_src_ty
  /\ res.out.arms[1].content.body = res.out.arms[2].content.body
  /\ SrcTypeOf(res.out.arms[1].content) = Some("i32")
  /\ SrcTypeOf(res.out.arms[2].content) = Some("f64")
  /\ TokenOf(res.out.arms[1].content) # TokenOf(res.out.arms[2].content)

\* C20: destination correlation by marker.  In the arm of variant V the
\* destination alias, declared when that facet is requested, is the Target
\* of the destination's owned accessor for V's marker, and the constraint
\* alias the destination's EnumVariantConstraint for the same marker; a
\* value of the destination type converted into the destination enum in
\* the arm run for a value in variant V is the destination's variant V.
DestCorrelation ==
  /\ res.op \in {"match", "match_into"} =>
       \A i \in DOMAIN res.out.arms :
         LET content == res.out.arms[i].content
             marker == MarkerOf(schema, schema.variants[i].name)
             dest == AssocOf(content, "EnumVariantDowncast")
             constr == AssocOf(content, "EnumVariantConstraint")
         IN  /\ dest # None <=> res.out.flags.include_dest
             /\ dest # None =>
                  /\ dest[1].marker = marker
                  /\ dest[1].item = "Target"
                  /\ dest[1].enum = "$DestEnum"
             /\ constr # None <=> res.out.flags.dest_constraint
             /\ constr # None =>
                  /\ constr[1].marker = marker
                  /\ constr[1].item = "Constraint"
                  /\ constr[1].enum = "$DestEnum"
  /\ res.op = "match_into" =>
       /\ res.marker = MarkerOf(schema, res.variant)
       /\ res.out.into.tag = res.variant
       /\ \E s \in Schemas :
            /\ s.name = res.key
            /\ res.out.into \in ValuesOf(s)

DestCorrelationWitness ==
  /\ schema = MyEnumVariant
  /\ res.op = "match_into"
  /\ res.key = "MyEnum"
  /\ res.variant = "U16"
  /\ res.out.flags.dest_constraint
  /\ res.out.dest_ty = "Vec<u16>"
  /\ res.out.into = [tag |-> "U16", fields |-> [f \in {"0"} |-> 0]]

\* C21: source payload type alias for unit variants.  Whenever the
\* source-payload-type facet is requested, the arm of a unit-shaped variant
\* declares the source payload type alias and the alias names the unit
\* type (), for every enum, one with unit variants only included.
SrcAliasForUnit ==
  res.op \in {"match", "match_grouped", "match_into"} /\ res.out.flags.include_src_ty =>
    \A i \in DOMAIN res.out.arms :
      schema.variants[i].shape = "Unit" =>
        SrcTypeOf(res.out.arms[i].content) = Some("()")

\* C22: struct-shaped variants in plain dispatch.  The arm the plain
\* matcher generates for a struct-shaped variant is a pattern accepted for
\* that variant, and when the payload binding is requested a value in that
\* variant, dispatched by value or by reference, binds the chosen name to
\* a record holding all the named fields of the variant (by value: the
\* owned record the value was built from).
StructVariantBinding ==
  res.op = "match" =>
    \A i \in DOMAIN res.out.arms :
      LET v == schema.variants[i]
          arm == res.out.arms[i]
      IN  v.shape = "Struct" =>
            /\ arm.pattern.variant = v.name
            /\ PatternFits(v, arm.pattern)
            /\ (res.out.flags.include_inner /\ res.variant = v.name) =>
                 /\ res.out.ran # None
                 /\ res.out.ran[1].inner # None
                 /\ DOMAIN res.out.ran[1].inner[1] = FieldSet(v)
                 /\ ~res.out.byref => res.out.ran[1].inner[1] = origin.payload

MarkerAliasesOf(content) == {t \in Range(content.types) : t.target.k = "marker"}

\* C24: facet independence.  For every combination of facets each arm
\* declares the marker alias whatever is requested, the source payload type
\* alias exactly when that facet is requested, the destination alias
\* exactly when the destination facet is requested, and the constraint
\* alias exactly when the constraint facet is requested.
FacetIndependence ==
  res.op \in {"match", "match_into"} =>
    \A i \in DOMAIN res.out.arms :
      LET content == res.out.arms[i].content
          fl == res.out.flags
      IN  /\ Cardinality(MarkerAliasesOf(content)) = 1
          /\ SrcTypeOf(content) # None <=> fl.include_src_ty
          /\ AssocOf(content, "EnumVariantDowncast") # None <=> fl.include_dest
          /\ AssocOf(content, "EnumVariantConstraint") # None <=> fl.dest_constraint

\* An expression that is a list of identifiers separated by |, in any
\* nesting.
RECURSIVE BarList(_)
BarList(expr) ==
  \/ expr.k = "path" /\ expr.ident # None
  \/ expr.k = "binary" /\ expr.op = "|" /\ BarList(expr.left) /\ BarList(expr.right)

\* An array element written as GroupName(Variant | ...).
WellFormedGroup(elem) ==
  /\ elem.k = "call"
  /\ elem.func.k = "path"
  /\ elem.func.ident # None
  /\ Len(elem.args) = 1
  /\ BarList(elem.args[1])

\* The elements of the array of a grouping attribute, <<>> when the
\* attribute is not grouping = [..].
WrittenElems(item) ==
  IF item.k = "namevalue" /\ item.path = "grouping" /\ item.value.k = "array"
  THEN item.value.elems
  ELSE <<>>

\* C25: all-or-nothing grouping parse.  from_meta returns either all the
\* groups written, one per element of the array, each with as many members
\* as identifiers written, or an error that carries no group; one
\* malformed element anywhere in the array makes the whole parse fail.
AllOrNothingParse ==
  derived # None =>
    LET r == derived[1]
        elems == WrittenElems(attr[1])
    IN  /\ r.ok =>
             /\ DOMAIN r = {"ok", "value"}
             /\ Len(r.value) = Len(elems)
             /\ Len(r.value) >= 1
             /\ \A i \in DOMAIN elems :
                  /\ WellFormedGroup(elems[i])
                  /\ Len(r.value[i][2]) = Len(WrittenIdents(elems[i].args[1]))
        /\ ~r.ok => DOMAIN r = {"ok", "error"}
        /\ (\E i \in DOMAIN elems : ~WellFormedGroup(elems[i])) => ~r.ok

AllOrNothingParseWitness ==
  /\ attr = Some(MetaNameValue("grouping", Array(<<
              Call(PathIdent("Numeric"), <<PathIdent("Int")>>), Lit>>)))
  /\ derived # None
  /\ ~derived[1].ok
  /\ derived[1].error = "Expected group definition in the format GroupName(Variant | ...)"

\* C26: order preservation in grouping.  The parsed grouping lists the
\* groups in the order the array writes them, and in each group the
\* identifiers of its |-separated list from left to right, whatever the
\* nesting of |, one member per identifier written.
OrderPreserved ==
  (derived # None /\ derived[1].ok) =>
    LET groups == derived[1].value
        elems == WrittenElems(attr[1])
    IN  /\ DOMAIN groups = DOMAIN elems
        /\ \A i \in DOMAIN elems :
             /\ groups[i][1] = elems[i].func.ident[1]
             /\ groups[i][2] = WrittenIdents(elems[i].args[1])

OrderPreservedWitness ==
  /\ attr = Some(MetaNameValue("grouping", Array(<<
              Call(PathIdent("Text"), <<PathIdent("Str")>>),
              Call(PathIdent("Numeric"),
                   <<Binary("|", PathIdent("Int"), PathIdent("Float"))>>)>>)))
  /\ derived = Some(Ok(<<<<"Text", <<"Str">>>>, <<"Numeric", <<"Int", "Float">>>>>>))

\* C27: read-only and failed accessors change nothing.  A downcast_ref
\* call, a downcast_mut call (returning None, or Some not yet written
\* through) and the end of a borrow leave the value as it was; the payload
\* of a live value changes only by a write through the outstanding result
\* of a successful downcast_mut, and then only in the field written; the
\* active variant of a live value never changes.
AccessorsFrame ==
  [][/\ res'.op \in {"downcast_ref", "downcast_mut", "release"} => val' = val
     /\ (val # None /\ val' # None) =>
          /\ val'[1].tag = val[1].tag
          /\ val' # val =>
               /\ res'.op = "write"
               /\ borrow # None
               /\ \E f \in DOMAIN borrow[1] :
                    \A g \in DOMAIN val[1].fields \ {borrow[1][f].field} :
                      val'[1].fields[g] = val[1].fields[g]]_vars

AccessorsFrameWitness ==
  /\ schema = StructVariantData
  /\ res.op = "downcast_mut"
  /\ res.variant = "Person"
  /\ res.key = "Score"
  /\ res.out = None
  /\ borrow = None
  /\ origin.via = "new"
  /\ val = Some(EnumValue(VariantNamed(schema, "Person"), origin.payload))
  /\ val[1].fields["age"] = 1

====
